---- MODULE Spec2Model ----
(***************************************************************************)
(* A model of the step-wise JavaScript interpreter JSInterpreter           *)
(* (src/src/interpreter.ts): the execution state, step() with its          *)
(* trampoline, executeNode, evaluate, callFunction, the DOM proxy's        *)
(* addEventListener and the event firings it registers.                    *)
(*                                                                         *)
(* An interpreter instance runs one program, given here as the AST acorn   *)
(* produces for it.  Runtime values are tagged records [t, v]; scopes and  *)
(* metadata are functions from names to values.                              *)
(***************************************************************************)
EXTENDS Integers, Sequences, FiniteSets, TLC

VARIABLES
    prog,             \* index of the program given to the constructor
    previewWindow,    \* TRUE when constructed with a preview iframe
    stack,            \* state.stack
    globals,          \* state.globals
    globalMetadata,   \* state.globalMetadata
    logs,             \* state.logs
    isFinished,       \* state.isFinished
    error,            \* state.error (NoError while unset)
    currentLine,      \* state.currentLine
    lastExplanation,  \* state.lastExplanation
    onStepCallback,   \* TRUE once setOnStep has registered an observer
    listeners,        \* the closures handed to target.addEventListener
    dom,              \* properties written on the live elements
    last,             \* history: what the last operation did
    nOps,             \* history: number of state-changing operations so far
    twin              \* a second interpreter built from the same source, given the
                      \* same step() calls and event firings, with the visible
                      \* steps counted on both sides

vars == <<prog, previewWindow, stack, globals, globalMetadata, logs, isFinished,
          error, currentLine, lastExplanation, onStepCallback, listeners, dom, twin,
          last, nOps>>

-----------------------------------------------------------------------------
(* Bounds of the exploration *)

MaxOps == 16        \* step() calls and event firings explored per run
MaxStack == 4       \* frames on the stack (recursion depth explored)

-----------------------------------------------------------------------------
(* Runtime values *)

Undefined == [t |-> "undefined", v |-> 0]
Null == [t |-> "null", v |-> 0]
NaN == [t |-> "NaN", v |-> 0]
Num(n) == [t |-> "number", v |-> n]
Str(s) == [t |-> "string", v |-> s]
Bool(b) == [t |-> "boolean", v |-> b]
FnNode(node) == [t |-> "node", v |-> node]
Native(name) == [t |-> "native", v |-> name]
HostObject(name) == [t |-> "object", v |-> name]
DOMProxy(selector) == [t |-> "proxy", v |-> selector]
ProxyMethod(selector, p) == [t |-> "proxymethod", v |-> <<selector, p>>]
Array(sel, elems) == [t |-> "array", v |-> <<sel, elems>>]

NoError == "<unset>"
EmptyMap == << >>

Has(m, k) == k \in DOMAIN m
Put(m, k, x) == (k :> x) @@ m

\* typeof v === 'function'
IsNativeFunction(v) == v.t \in {"native", "proxymethod"}

\* callee.type is FunctionDeclaration, FunctionExpression or ArrowFunctionExpression
FunctionTypes == {"FunctionDeclaration", "FunctionExpression", "ArrowFunctionExpression"}

IsFunctionNode(v) == v.t = "node" /\ v.v.type \in FunctionTypes

\* JavaScript's ToBoolean, as `if (test)` and `if (obj)` apply it
Truthy(v) ==
    CASE v.t \in {"undefined", "null", "NaN"} -> FALSE
      [] v.t = "number" -> v.v # 0
      [] v.t = "string" -> v.v # ""
      [] v.t = "boolean" -> v.v
      [] OTHER -> TRUE

\* String(v), for string concatenation and log formatting
ToStr(v) ==
    CASE v.t = "undefined" -> "undefined"
      [] v.t = "null" -> "null"
      [] v.t = "NaN" -> "NaN"
      [] v.t = "number" -> ToString(v.v)
      [] v.t = "string" -> v.v
      [] v.t = "boolean" -> IF v.v THEN "true" ELSE "false"
      [] v.t = "node" -> "[object Object]"
      [] v.t = "proxy" -> "[object HTMLElement]"
      [] v.t = "array" -> "[array]"
      [] OTHER -> "function"

\* the strings Number() turns into a number
NumericStrings == {"0", "1", "2", "3", "5"}

StrToNum(s) ==
    CASE s = "0" -> 0 [] s = "1" -> 1 [] s = "2" -> 2 [] s = "3" -> 3 [] s = "5" -> 5
      [] OTHER -> 0

\* JavaScript's ToNumber
ToNum(v) ==
    CASE v.t = "number" -> v
      [] v.t = "null" -> Num(0)
      [] v.t = "boolean" -> Num(IF v.v THEN 1 ELSE 0)
      [] v.t = "string" ->
            IF v.v = "" THEN Num(0)
            ELSE IF v.v \in NumericStrings THEN Num(StrToNum(v.v)) ELSE NaN
      [] OTHER -> NaN

IsPrimitiveNumberLike(v) == v.t \in {"number", "null", "boolean", "undefined", "NaN"}

\* left + right
Plus(l, r) ==
    IF IsPrimitiveNumberLike(l) /\ IsPrimitiveNumberLike(r)
    THEN (IF ToNum(l).t = "NaN" \/ ToNum(r).t = "NaN" THEN NaN
          ELSE Num(ToNum(l).v + ToNum(r).v))
    ELSE Str(ToStr(l) \o ToStr(r))

\* left - right, left * right, left / right
Arith(op, l, r) ==
    LET a == ToNum(l)
        b == ToNum(r)
    IN  IF a.t = "NaN" \/ b.t = "NaN" THEN NaN
        ELSE CASE op = "-" -> Num(a.v - b.v)
               [] op = "*" -> Num(a.v * b.v)
               [] op = "/" ->
                     IF b.v = 0 THEN (IF a.v = 0 THEN NaN ELSE [t |-> "infinity", v |-> 0])
                     ELSE IF a.v % b.v = 0 THEN Num(a.v \div b.v)
                     ELSE [t |-> "fraction", v |-> <<a.v, b.v>>]

\* left === right
StrictEq(l, r) == l.t = r.t /\ l.t # "NaN" /\ l = r

\* left == right
LooseEq(l, r) ==
    IF l.t = r.t THEN StrictEq(l, r)
    ELSE IF l.t \in {"undefined", "null"} /\ r.t \in {"undefined", "null"} THEN TRUE
    ELSE IF l.t \in {"undefined", "null"} \/ r.t \in {"undefined", "null"} THEN FALSE
    ELSE IF l.t \in {"number", "string", "boolean"} /\ r.t \in {"number", "string", "boolean"}
         THEN ToNum(l).t = "number" /\ ToNum(l) = ToNum(r)
    ELSE FALSE

\* left < right (numeric comparison; string pairs are not compared by the programs)
Less(l, r) ==
    LET a == ToNum(l)
        b == ToNum(r)
    IN  a.t = "number" /\ b.t = "number" /\ a.v < b.v

LessEq(l, r) ==
    LET a == ToNum(l)
        b == ToNum(r)
    IN  a.t = "number" /\ b.t = "number" /\ a.v <= b.v

\* the operator switch of BinaryExpression; an operator outside it yields undefined
BinaryOp(op, l, r) ==
    CASE op = "+" -> Plus(l, r)
      [] op \in {"-", "*", "/"} -> Arith(op, l, r)
      [] op = "===" -> Bool(StrictEq(l, r))
      [] op = "!==" -> Bool(~StrictEq(l, r))
      [] op = "==" -> Bool(LooseEq(l, r))
      [] op = "!=" -> Bool(~LooseEq(l, r))
      [] op = "<" -> Bool(Less(l, r))
      [] op = ">" -> Bool(Less(r, l))
      [] op = "<=" -> Bool(LessEq(l, r))
      [] op = ">=" -> Bool(LessEq(r, l))
      [] OTHER -> Undefined

-----------------------------------------------------------------------------
(* AST nodes, as acorn builds them (type tags and child fields as in ESTree; *)
(* loc.start.line is kept as the field line)                                 *)

NoNode == [type |-> "null"]
IsNode(n) == n.type # "null"

Literal(val) == [type |-> "Literal", value |-> val]
Identifier(name) == [type |-> "Identifier", name |-> name]
BinaryExpression(op, l, r) ==
    [type |-> "BinaryExpression", operator |-> op, left |-> l, right |-> r]
UnaryExpression(op, arg) ==
    [type |-> "UnaryExpression", operator |-> op, argument |-> arg]
UpdateExpression(op, prefix, arg) ==
    [type |-> "UpdateExpression", operator |-> op, prefix |-> prefix, argument |-> arg]
AssignmentExpression(op, l, r) ==
    [type |-> "AssignmentExpression", operator |-> op, left |-> l, right |-> r]
CallExpression(callee, args) ==
    [type |-> "CallExpression", callee |-> callee, arguments |-> args]
MemberExpression(obj, prop) ==
    [type |-> "MemberExpression", object |-> obj, property |-> Identifier(prop),
     computed |-> FALSE]
FunctionExpression(params, body) ==
    [type |-> "FunctionExpression", id |-> NoNode, params |-> params, body |-> body]
ArrowFunctionExpression(params, body) ==
    [type |-> "ArrowFunctionExpression", id |-> NoNode, params |-> params, body |-> body]
FunctionDeclaration(line, name, params, body) ==
    [type |-> "FunctionDeclaration", line |-> line, id |-> Identifier(name),
     params |-> params, body |-> body]
VariableDeclaration(line, kind, name, init) ==
    [type |-> "VariableDeclaration", line |-> line, kind |-> kind,
     declarations |-> <<[id |-> Identifier(name), init |-> init]>>]
ExpressionStatement(line, e) ==
    [type |-> "ExpressionStatement", line |-> line, expression |-> e]
IfStatement(line, test, cons, alt) ==
    [type |-> "IfStatement", line |-> line, test |-> test, consequent |-> cons,
     alternate |-> alt]
BlockStatement(line, body) == [type |-> "BlockStatement", line |-> line, body |-> body]
ForStatement(line, init, test, update, body) ==
    [type |-> "ForStatement", line |-> line, init |-> init, test |-> test,
     update |-> update, body |-> body]
ReturnStatement(line, arg) == [type |-> "ReturnStatement", line |-> line, argument |-> arg]
WhileStatement(line, test, body) ==
    [type |-> "WhileStatement", line |-> line, test |-> test, body |-> body]

\* node.loc ? node.loc.start.line : (no location)
HasLoc(n) == "line" \in DOMAIN n

-----------------------------------------------------------------------------
(* The live rendering surface behind previewWindow *)

\* ids for which previewWindow.document.getElementById finds an element
DomIds == {"btn"}

\* selectors for which previewWindow.document.querySelector finds an element
DomSelectors == {".next"}

\* names that are `in` previewWindow, with their values
WindowProps == ("innerWidth" :> Num(800)) @@ ("scrollTo" :> Native("window.scrollTo"))

\* what previewWindow.prompt answers
HostPromptAnswer == Str("5")

-----------------------------------------------------------------------------
(* The mutable execution state, threaded through the interpreter's methods. *)
(* trace is the history of the operation in progress.                       *)

Event(e, type, n) == [e |-> e, type |-> type, n |-> n]

Note(st, e, type, n) == [st EXCEPT !.trace = Append(@, Event(e, type, n))]

\* JSON.stringify(value), as it appears inside a log line
Json(v) ==
    CASE v.t = "string" -> "\"" \o v.v \o "\""
      [] v.t = "node" -> "{\"type\":\"" \o v.v.type \o "\"}"
      [] v.t = "proxy" -> "{}"
      [] v.t = "array" -> "[" \o ToString(Len(v.v[2])) \o " x {}]"
      [] v.t = "object" -> "{}"
      [] v.t \in {"native", "proxymethod"} -> "undefined"
      [] v.t \in {"NaN", "infinity"} -> "null"
      [] v.t = "fraction" -> ToString(v.v[1]) \o "/" \o ToString(v.v[2])
      [] OTHER -> ToStr(v)

\* typeof m === 'object' ? JSON.stringify(m) : String(m)
Formatted(m) == IF m.t \in {"null", "node", "proxy", "array", "object"} THEN Json(m) ELSE ToStr(m)

RECURSIVE Join(_, _)
Join(parts, sep) ==
    IF parts = << >> THEN ""
    ELSE IF Len(parts) = 1 THEN parts[1]
    ELSE parts[1] \o sep \o Join(Tail(parts), sep)

\* log(...messages) with the messages already formatted
PushLog(st, line) == [st EXCEPT !.logs = Append(@, line)]

\* log(...messages)
Log(st, messages) ==
    PushLog(st, Join([i \in 1..Len(messages) |-> Formatted(messages[i])], " "))

\* the scope object a frame refers to: the global frame's scope is state.globals itself
ScopeOf(st, fi) == IF st.stack[fi].scopeIsGlobals THEN st.globals ELSE st.stack[fi].scope

MetadataOf(st, fi) ==
    IF st.stack[fi].scopeIsGlobals THEN st.globalMetadata ELSE st.stack[fi].metadata

\* scope[name] = value
SetScope(st, fi, name, val) ==
    IF st.stack[fi].scopeIsGlobals
    THEN [st EXCEPT !.globals = Put(@, name, val)]
    ELSE [st EXCEPT !.stack[fi].scope = Put(@, name, val)]

\* metadata[name] = entry
SetMetadata(st, fi, name, entry) ==
    IF st.stack[fi].scopeIsGlobals
    THEN [st EXCEPT !.globalMetadata = Put(@, name, entry)]
    ELSE [st EXCEPT !.stack[fi].metadata = Put(@, name, entry)]

\* this.state.globals[name] = value: the global frame's scope is the same object
SetGlobal(st, name, val) == [st EXCEPT !.globals = Put(@, name, val)]

\* results of evaluate: a value, or a thrown Error with its message
Ok(st, val) == [st |-> st, val |-> val, thrown |-> FALSE, msg |-> ""]
Throw(st, msg) ==
    [st |-> Note(st, "raise", msg, Len(st.stack)), val |-> Undefined, thrown |-> TRUE,
     msg |-> msg]

\* an exception passing through a caller that does not catch it
Rethrow(r) == [st |-> r.st, val |-> Undefined, thrown |-> TRUE, msg |-> r.msg]

Arg(args, i) == IF i <= Len(args) THEN args[i] ELSE Undefined

NoName == "<undefined>"

\* fnNode.id?.name
FunctionName(fnNode) == IF IsNode(fnNode.id) THEN fnNode.id.name ELSE NoName

\* args.join(', ')
JoinArgs(args) ==
    Join([i \in 1..Len(args) |->
            IF args[i].t \in {"undefined", "null"} THEN "" ELSE ToStr(args[i])], ", ")

RECURSIVE BindParams(_, _, _, _)
\* fnNode.params.forEach: bind each Identifier parameter to the argument at its position
BindParams(params, args, i, sm) ==
    IF i > Len(params) THEN sm
    ELSE IF params[i].type = "Identifier"
         THEN BindParams(params, args, i + 1,
                         [scope |-> Put(sm.scope, params[i].name, Arg(args, i)),
                          metadata |-> Put(sm.metadata, params[i].name,
                                           [kind |-> "var", label |-> NoName])])
         ELSE BindParams(params, args, i + 1, sm)

\* a call frame whose scope starts from the caller's scope instead of the globals
CallFrameFromCaller(st, fnNode, args) ==
    LET sm == BindParams(fnNode.params, args, 1,
                         [scope |-> IF st.stack = << >> THEN st.globals
                                    ELSE ScopeOf(st, Len(st.stack)),
                          metadata |-> EmptyMap])
    IN  [scope |-> sm.scope,
         metadata |-> sm.metadata,
         nodeQueue |-> <<fnNode.body>>,
         isFunction |-> TRUE,
         functionName |-> FunctionName(fnNode),
         scopeIsGlobals |-> FALSE]

\* a call frame pushed without the function-boundary flag
CallFrameUnmarked(st, fnNode, args) ==
    LET sm == BindParams(fnNode.params, args, 1, [scope |-> st.globals, metadata |-> EmptyMap])
    IN  [scope |-> sm.scope,
         metadata |-> sm.metadata,
         nodeQueue |-> <<fnNode.body>>,
         isFunction |-> FALSE,
         functionName |-> FunctionName(fnNode),
         scopeIsGlobals |-> FALSE]

\* the frame callFunction pushes
CallFrame(st, fnNode, args) ==
    LET sm == BindParams(fnNode.params, args, 1, [scope |-> st.globals, metadata |-> EmptyMap])
    IN  [scope |-> sm.scope,
         metadata |-> sm.metadata,
         nodeQueue |-> <<fnNode.body>>,
         isFunction |-> TRUE,
         functionName |-> FunctionName(fnNode),
         scopeIsGlobals |-> FALSE]

\* a callFunction that leaves the finished flag as it finds it
callFunctionKeepsFinished(st, fnNode, args) ==
    LET name == IF IsNode(fnNode.id) THEN fnNode.id.name ELSE "(anonymous function)"
        s1 == PushLog(st, "Calling " \o name \o "(" \o JoinArgs(args) \o ")")
        frame == CallFrame(s1, fnNode, args)
        s2 == [s1 EXCEPT !.stack = Append(@, frame),
                         !.pushed = Append(@, [fnNode |-> fnNode, frame |-> frame,
                                               args |-> args, globals |-> st.globals,
                                               caller |-> IF st.stack = << >> THEN EmptyMap
                                                          ELSE ScopeOf(st, Len(st.stack))])]
    IN  Note(s2, "push", "callFunction", Len(s2.stack))

\* callFunction(fnNode, args)
callFunction(st, fnNode, args) ==
    LET name == IF IsNode(fnNode.id) THEN fnNode.id.name ELSE "(anonymous function)"
        s1 == PushLog(st, "Calling " \o name \o "(" \o JoinArgs(args) \o ")")
        frame == CallFrame(s1, fnNode, args)
        s2 == [s1 EXCEPT !.stack = Append(@, frame),
                         !.pushed = Append(@, [fnNode |-> fnNode, frame |-> frame,
                                               args |-> args, globals |-> st.globals,
                                               caller |-> IF st.stack = << >> THEN EmptyMap
                                                          ELSE ScopeOf(st, Len(st.stack))])]
        s3 == [s2 EXCEPT !.isFinished = FALSE]
    IN  Note(s3, "push", "callFunction", Len(s3.stack))

-----------------------------------------------------------------------------
(* Host objects and native functions *)

\* target[prop] of a live element: what the program wrote there, else undefined
ElementProp(st, selector, p) ==
    IF Has(st.dom, selector) /\ Has(st.dom[selector], p) THEN st.dom[selector][p] ELSE Undefined

\* o[p]: the get trap of the DOM proxy, the console and document objects of the
\* host bridge, list-like values and strings; anything else has no such property
GetProp(st, o, p) ==
    CASE o.t = "proxy" ->
            IF p = "__selector" THEN Str(o.v)
            ELSE IF p = "addEventListener" THEN ProxyMethod(o.v, "addEventListener")
            ELSE ElementProp(st, o.v, p)
      [] o.t = "object" /\ o.v = "console" ->
            IF p = "log" THEN Native("console.log") ELSE Undefined
      [] o.t = "object" /\ o.v = "document" ->
            IF p \in {"getElementById", "querySelector", "querySelectorAll"}
            THEN Native("document." \o p) ELSE Undefined
      [] o.t = "array" ->
            IF p = "length" THEN Num(Len(o.v[2]))
            ELSE IF p = "__selector" THEN Str(o.v[1])
            ELSE Undefined
      [] o.t = "string" -> IF p = "length" THEN Num(Len(o.v)) ELSE Undefined
      [] OTHER -> Undefined

\* o[index] for a computed member access
GetIndex(st, o, k) ==
    IF k.t = "string" THEN GetProp(st, o, k.v)
    ELSE IF o.t = "array" /\ k.t = "number" /\ k.v >= 0 /\ k.v < Len(o.v[2])
         THEN o.v[2][k.v + 1]
    ELSE Undefined

\* the set trap of the DOM proxy: target[prop] = value
SetElementProp(st, selector, p, val) ==
    [st EXCEPT !.dom = Put(@, selector,
                           Put(IF Has(st.dom, selector) THEN st.dom[selector] ELSE EmptyMap,
                               p, val))]

\* a registration that also runs the callback at once
RegisterAndCall(st, selector, args) ==
    callFunction(Note([st EXCEPT !.listeners =
                          Append(@, [type |-> ToStr(Arg(args, 1)), callback |-> Arg(args, 2),
                                     selector |-> selector])],
                      "register", selector, Len(st.stack)),
                 Arg(args, 2).v, << >>)

\* the function the proxy returns for addEventListener: it hands a closure over
\* type, callback and selector to target.addEventListener
RegisterListener(st, selector, args) ==
    Note([st EXCEPT !.listeners =
             Append(@, [type |-> ToStr(Arg(args, 1)), callback |-> Arg(args, 2),
                        selector |-> selector])],
         "register", selector, Len(st.stack))

\* callee(...args) for a host/native callee
InvokeNative(st, callee, args) ==
    LET f == callee.v
        a1 == Arg(args, 1)
    IN  CASE callee.t = "proxymethod" -> Ok(RegisterListener(st, f[1], args), Undefined)
          [] f = "isNaN" -> Ok(st, Bool(ToNum(a1).t = "NaN"))
          [] f \in {"parseFloat", "parseInt"} ->
                Ok(st, IF a1.t = "number" THEN a1
                       ELSE IF a1.t = "string" /\ a1.v \in NumericStrings THEN ToNum(a1)
                       ELSE NaN)
          [] f = "alert" -> Ok(Log(st, <<Str("Alert:"), a1>>), Undefined)
          [] f = "prompt" ->
                Ok(Log(Log(st, <<Str("Prompt:"), a1>>),
                       <<Str("Prompt Result:"), HostPromptAnswer>>),
                   HostPromptAnswer)
          [] f = "console.log" -> Ok(Log(st, args), Undefined)
          [] f = "document.getElementById" ->
                IF st.previewWindow /\ a1.t = "string" /\ a1.v \in DomIds
                THEN Ok(PushLog(st, "Selected element with id: " \o ToStr(a1)),
                        DOMProxy("#" \o a1.v))
                ELSE Ok(PushLog(st, "Element with id " \o ToStr(a1) \o " not found"), Null)
          [] f = "document.querySelector" ->
                IF st.previewWindow /\ a1.t = "string" /\ a1.v \in DomSelectors
                THEN Ok(PushLog(st, "Selected element: " \o ToStr(a1)), DOMProxy(a1.v))
                ELSE Ok(st, Null)
          [] f = "document.querySelectorAll" ->
                IF st.previewWindow
                THEN Ok(st, Array(ToStr(a1),
                                  IF a1.t = "string" /\ a1.v \in DomSelectors
                                  THEN <<DOMProxy(a1.v)>> ELSE << >>))
                ELSE Ok(st, Array(NoName, << >>))
          [] OTHER -> Ok(st, Undefined)

-----------------------------------------------------------------------------
(* evaluate(node, scope): fi is the index of the frame whose scope is passed. *)
(* Every case of the switch first evaluates its sub-expressions, in the order *)
(* SubExpressions gives, and then computes its result from their values.      *)

\* case 'Identifier'
EvaluateIdentifier(st, node, fi) ==
    IF node.name = "console" THEN Ok(st, HostObject("console"))
    ELSE IF node.name = "document" THEN Ok(st, HostObject("document"))
    ELSE IF Has(ScopeOf(st, fi), node.name) THEN Ok(st, ScopeOf(st, fi)[node.name])
    ELSE IF Has(st.globals, node.name) THEN Ok(st, st.globals[node.name])
    ELSE IF st.previewWindow /\ Has(WindowProps, node.name) THEN Ok(st, WindowProps[node.name])
    ELSE Throw(st, node.name \o " is not defined")

\* the history keeps every identifier read: the scopes it saw and what it gave
ReadIdentifier(r, st, node, fi) ==
    [r EXCEPT !.st.reads = Append(@, [name |-> node.name,
                                      scope |-> ScopeOf(st, fi),
                                      globals |-> st.globals,
                                      window |-> st.previewWindow,
                                      val |-> r.val, thrown |-> r.thrown, msg |-> r.msg])]

\* the history keeps every binding written in frame fi: the scopes before (in st)
\* and after (in s2), the frame's metadata after, and the number of log lines added
Written(s2, st, how, name, val, fi) ==
    [s2 EXCEPT !.writes = Append(@, [how |-> how, name |-> name, val |-> val,
                                     global |-> st.stack[fi].scopeIsGlobals,
                                     scopeBefore |-> ScopeOf(st, fi),
                                     globalsBefore |-> st.globals,
                                     scopeAfter |-> ScopeOf(s2, fi),
                                     globalsAfter |-> s2.globals,
                                     metadataAfter |-> MetadataOf(s2, fi),
                                     logged |-> SubSeq(s2.logs, Len(st.logs) + 1, Len(s2.logs))])]

\* an assignment that looks the name up in the globals before the frame's scope
AssignIdentifierGlobalsFirst(st, name, fi, finalVal) ==
    Ok(Written(PushLog(IF Has(st.globals, name) THEN SetGlobal(st, name, finalVal)
                       ELSE SetScope(st, fi, name, finalVal),
                       "Assigned " \o name \o " = " \o Json(finalVal)),
               st, "assign", name, finalVal, fi),
       finalVal)

\* the write of an AssignmentExpression whose left side is an Identifier
AssignIdentifier(st, name, fi, finalVal) ==
    Ok(Written(PushLog(IF Has(ScopeOf(st, fi), name) THEN SetScope(st, fi, name, finalVal)
                       ELSE IF Has(st.globals, name) THEN SetGlobal(st, name, finalVal)
                       ELSE SetScope(st, fi, name, finalVal),
                       "Assigned " \o name \o " = " \o Json(finalVal)),
               st, "assign", name, finalVal, fi),
       finalVal)

\* the write of an AssignmentExpression whose left side is a MemberExpression:
\* if (obj) { obj[prop] = finalVal; log(...) }; return finalVal
AssignMember(st, obj, prop, finalVal) ==
    IF ~Truthy(obj) THEN Ok(st, finalVal)
    ELSE IF obj.t \in {"number", "string", "boolean"}
         THEN Throw(st, "Cannot create property '" \o ToStr(prop) \o "'")
    ELSE Ok(PushLog(IF obj.t = "proxy" THEN SetElementProp(st, obj.v, ToStr(prop), finalVal)
                    ELSE st,
                    "Set " \o ToStr(prop) \o " = " \o Json(finalVal)),
            finalVal)

\* an assignment that stores the right-hand value whatever the operator
FinalValPlain(operator, currentVal, rVal) == rVal

\* the value an AssignmentExpression stores
FinalVal(operator, currentVal, rVal) ==
    CASE operator = "=" -> rVal
      [] operator = "+=" -> Plus(currentVal, rVal)
      [] operator = "-=" -> Arith("-", currentVal, rVal)
      [] operator = "*=" -> Arith("*", currentVal, rVal)
      [] operator = "/=" -> Arith("/", currentVal, rVal)
      [] OTHER -> rVal

\* cur + 1 or cur - 1
UpdatedValue(operator, cur) ==
    IF operator = "++" THEN Plus(cur, Num(1))
    ELSE IF operator = "--" THEN Arith("-", cur, Num(1))
    ELSE Undefined

\* the evaluate calls a case makes, in the order it makes them
SubExpressions(node) ==
    CASE node.type = "BinaryExpression" -> <<node.left, node.right>>
      [] node.type = "UpdateExpression" -> <<node.argument>>
      [] node.type = "AssignmentExpression" ->
            <<node.right>>
            \o (IF node.operator # "=" THEN <<node.left>> ELSE << >>)
            \o (IF node.left.type = "MemberExpression"
                THEN <<node.left.object>>
                     \o (IF node.left.computed THEN <<node.left.property>> ELSE << >>)
                ELSE << >>)
      [] node.type = "CallExpression" -> <<node.callee>> \o node.arguments
      [] node.type = "MemberExpression" ->
            <<node.object>> \o (IF node.computed THEN <<node.property>> ELSE << >>)
      [] OTHER -> << >>

\* case 'AssignmentExpression', with vals the values of its sub-expressions
EvaluateAssignment(st, node, fi, vals) ==
    LET compound == node.operator # "="
        finalVal == FinalVal(node.operator, IF compound THEN vals[2] ELSE Undefined, vals[1])
        k == IF compound THEN 3 ELSE 2
    IN  IF node.left.type = "MemberExpression"
        THEN AssignMember(st, vals[k],
                          IF node.left.computed THEN vals[k + 1]
                          ELSE Str(node.left.property.name),
                          finalVal)
        ELSE IF node.left.type = "Identifier"
        THEN AssignIdentifier(st, node.left.name, fi, finalVal)
        ELSE Ok(st, Undefined)

\* case 'CallExpression', with the callee and the arguments evaluated
EvaluateCall(st, callee, args) ==
    IF IsNativeFunction(callee)
    THEN InvokeNative(Note(st, "native", callee.t, Len(st.stack)), callee, args)
    ELSE IF IsFunctionNode(callee)
    THEN Ok(callFunction(Note(st, "call", callee.v.type, Len(st.stack)), callee.v, args),
            Undefined)
    ELSE Ok(st, Undefined)

\* case 'MemberExpression', with the object (and a computed property) evaluated
EvaluateMember(st, node, vals) ==
    IF vals[1].t \in {"undefined", "null"}
    THEN Throw(st, "Cannot read properties of " \o ToStr(vals[1]))
    ELSE IF node.computed THEN Ok(st, GetIndex(st, vals[1], vals[2]))
    ELSE Ok(st, GetProp(st, vals[1], node.property.name))

\* the switch of evaluate, once the sub-expressions of node have the values vals
EvaluateCase(st, node, fi, vals) ==
    CASE node.type = "Literal" -> Ok(st, node.value)
      [] node.type = "Identifier" ->
            ReadIdentifier(EvaluateIdentifier(st, node, fi), st, node, fi)
      [] node.type = "BinaryExpression" -> Ok(st, BinaryOp(node.operator, vals[1], vals[2]))
      [] node.type = "UpdateExpression" ->
            IF node.argument.type = "Identifier"
            THEN Ok(SetScope(st, fi, node.argument.name, UpdatedValue(node.operator, vals[1])),
                    IF node.prefix THEN UpdatedValue(node.operator, vals[1]) ELSE vals[1])
            ELSE Ok(st, Undefined)
      [] node.type = "AssignmentExpression" -> EvaluateAssignment(st, node, fi, vals)
      [] node.type = "CallExpression" -> EvaluateCall(st, vals[1], Tail(vals))
      [] node.type = "MemberExpression" -> EvaluateMember(st, node, vals)
      [] node.type \in {"FunctionExpression", "ArrowFunctionExpression"} ->
            Ok(st, FnNode(node))
      [] OTHER -> Ok(st, Undefined)

\* an exception thrown by a sub-expression leaves evaluate
AfterSubExpressions(r, node, fi) ==
    IF r.thrown THEN Rethrow(r) ELSE EvaluateCase(r.st, node, fi, r.val)

\* the values so far, extended by the next sub-expression's result
Collect(acc, r) ==
    IF r.thrown THEN [r EXCEPT !.val = << >>]
    ELSE [r EXCEPT !.val = Append(acc.val, r.val)]

RECURSIVE evaluate(_, _, _)
RECURSIVE EvaluateAll(_, _, _, _)

\* the sub-expressions nodes[i..], evaluated left to right until one throws
EvaluateAll(acc, nodes, i, fi) ==
    IF acc.thrown \/ i > Len(nodes) THEN acc
    ELSE EvaluateAll(Collect(acc, evaluate(acc.st, nodes[i], fi)), nodes, i + 1, fi)

evaluate(st, node, fi) ==
    IF ~IsNode(node) THEN Ok(st, Undefined)
    ELSE AfterSubExpressions(EvaluateAll(Ok(st, << >>), SubExpressions(node), 1, fi), node, fi)

-----------------------------------------------------------------------------
(* explainNode(node) and evaluateSimple(node): a text, or a thrown TypeError *)

Text(s) == [text |-> s, thrown |-> FALSE]
ExplainThrows == [text |-> "", thrown |-> TRUE]

\* n.name, undefined when the node has no such field
NameOf(n) == IF "name" \in DOMAIN n THEN n.name ELSE NoName

\* the text of `${node.arguments[0].value}`; reading .value of a missing first
\* argument throws
FirstArgValue(node, before, after) ==
    IF Len(node.arguments) = 0 THEN ExplainThrows
    ELSE Text(before
              \o (IF node.arguments[1].type = "Literal" THEN ToStr(node.arguments[1].value)
                  ELSE "undefined")
              \o after)

evaluateSimple(node) ==
    IF ~IsNode(node) THEN Text("")
    ELSE IF node.type = "Literal" THEN Text("<strong>" \o Json(node.value) \o "</strong>")
    ELSE IF node.type = "Identifier" THEN Text("<strong>" \o node.name \o "</strong>")
    ELSE IF node.type = "CallExpression"
         THEN IF node.callee.type = "MemberExpression"
                 /\ NameOf(node.callee.property) \in {"getElementById", "querySelector"}
              THEN FirstArgValue(node, "element \"<strong>", "</strong>\"")
              ELSE Text("result of " \o (IF NameOf(node.callee) \notin {NoName, ""}
                                         THEN NameOf(node.callee) ELSE "function"))
    ELSE Text("...")

\* case 'CallExpression' of explainNode
ExplainCall(node) ==
    LET callee == node.callee
        isMember == callee.type = "MemberExpression"
        onDocument == isMember /\ NameOf(callee.object) = "document"
        property == IF isMember THEN NameOf(callee.property) ELSE NoName
    IN  IF onDocument /\ property = "getElementById"
        THEN FirstArgValue(node, "Find the HTML element with the ID \"<strong>", "</strong>\".")
        ELSE IF onDocument /\ property = "querySelector"
        THEN FirstArgValue(node, "Find the first HTML element matching the CSS selector \"<strong>",
                           "</strong>\".")
        ELSE IF onDocument /\ property = "querySelectorAll"
        THEN FirstArgValue(node, "Find ALL HTML elements matching the selector \"<strong>",
                           "</strong>\".")
        ELSE IF isMember /\ property = "addEventListener"
        THEN FirstArgValue(node, "Listen for the \"<strong>", "</strong>\" event.")
        ELSE IF NameOf(callee) = "updateCounter"
        THEN Text("Run the <strong>updateCounter</strong> function.")
        ELSE IF NameOf(callee) = "showImg"
        THEN Text("Run the <strong>showImg</strong> function.")
        ELSE IF NameOf(callee) = "prompt" THEN FirstArgValue(node, "Ask the user: \"", "\"")
        ELSE IF NameOf(callee) = "alert" THEN FirstArgValue(node, "Show a message: \"", "\"")
        ELSE Text("Call function <strong>"
                  \o (IF NameOf(callee) \notin {NoName, ""} THEN NameOf(callee) ELSE "anonymous")
                  \o "</strong>.")

RECURSIVE explainNode(_)
explainNode(node) ==
    IF ~IsNode(node) THEN Text("")
    ELSE CASE node.type = "VariableDeclaration" ->
            LET decl == node.declarations[1]
                valueDesc == evaluateSimple(decl.init)
            IN  IF valueDesc.thrown THEN ExplainThrows
                ELSE Text("Create a " \o node.kind \o " named <strong>" \o NameOf(decl.id)
                          \o "</strong>"
                          \o (IF valueDesc.text # "" THEN " and set it to " \o valueDesc.text
                              ELSE "")
                          \o ".")
      [] node.type = "ExpressionStatement" -> explainNode(node.expression)
      [] node.type = "AssignmentExpression" ->
            LET val == evaluateSimple(node.right)
            IN  IF val.thrown THEN ExplainThrows
                ELSE Text("Update <strong>"
                          \o (IF node.left.type = "Identifier" THEN node.left.name ELSE "property")
                          \o "</strong> "
                          \o (IF node.operator = "=" THEN "to be" ELSE "by")
                          \o " " \o val.text \o ".")
      [] node.type = "CallExpression" -> ExplainCall(node)
      [] node.type = "IfStatement" -> Text("Check if the condition is true.")
      [] node.type = "ForStatement" -> Text("Start a loop.")
      [] node.type = "ForLoopCheck" -> Text("Check if the loop should continue.")
      [] node.type = "ReturnStatement" -> Text("Finish the function and return a value.")
      [] node.type = "FunctionDeclaration" ->
            Text("Define a function named <strong>" \o node.id.name \o "</strong>.")
      [] node.type = "UpdateExpression" ->
            Text((IF node.operator = "++" THEN "Increase" ELSE "Decrease")
                 \o " <strong>" \o NameOf(node.argument) \o "</strong> by 1.")
      [] OTHER -> Text("Execute " \o node.type \o ".")

-----------------------------------------------------------------------------
(* executeNode(node, frame): fi is the index of frame on the stack *)

Done(st) == [st |-> st, thrown |-> FALSE, msg |-> ""]
Raised(r) == [st |-> r.st, thrown |-> TRUE, msg |-> r.msg]

\* nodes put at the back of the queue, behind the nodes already pending
PushBack(st, fi, nodes) == [st EXCEPT !.stack[fi].nodeQueue = @ \o nodes]

\* frame.nodeQueue.unshift(...nodes)
Unshift(st, fi, nodes) == [st EXCEPT !.stack[fi].nodeQueue = nodes \o @]

\* getLabel(value)
getLabel(st, value) ==
    IF Truthy(value) /\ Truthy(GetProp(st, value, "__selector"))
    THEN "class/id: " \o ToStr(GetProp(st, value, "__selector"))
    ELSE IF value.t = "array" THEN "List [" \o ToString(Len(value.v[2])) \o "]"
    ELSE NoName

\* a return loop that never breaks: it pops every frame
PopEveryFrame(st) ==
    [Note(st, "retpop", "plain", 0) EXCEPT !.stack = << >>]

RECURSIVE PopUntilFunction(_)
\* while (stack.length > 0) { f = stack.pop(); ...; if (f.isFunction) break; }
\* (no frame is ever created with an onReturn callback)
PopUntilFunction(st) ==
    IF Len(st.stack) = 0 THEN st
    ELSE LET f == st.stack[Len(st.stack)]
             s1 == Note([st EXCEPT !.stack = SubSeq(@, 1, Len(@) - 1)],
                        "retpop", IF f.isFunction THEN "function" ELSE "plain",
                        Len(st.stack) - 1)
         IN  IF f.isFunction THEN s1 ELSE PopUntilFunction(s1)

\* the loop's nodes pushed in the order of the unshift calls: check, update, body
LoopNodesReversed(loop, checkNode) ==
    <<checkNode>>
    \o (IF IsNode(loop.update)
        THEN <<[type |-> "ExpressionStatement", line |-> checkNode.line,
                expression |-> loop.update]>>
        ELSE << >>)
    \o <<loop.body>>

\* the three nodes a loop pushes when its test holds: body, update (if any), check
LoopNodes(loop, checkNode) ==
    <<loop.body>>
    \o (IF IsNode(loop.update)
        THEN <<[type |-> "ExpressionStatement", line |-> checkNode.line,
                expression |-> loop.update]>>
        ELSE << >>)
    \o <<checkNode>>

\* a declarator that binds and logs but records no metadata
DeclareWithoutMetadata(r, kind, name, fi) ==
    IF r.thrown THEN Raised(r)
    ELSE Done(Written(PushLog(SetScope(r.st, fi, name, r.val),
                              "Declared " \o name \o " = " \o Json(r.val)),
                      r.st, kind, name, r.val, fi))

\* one declarator: bind the value r, record its metadata, log it
Declare(r, kind, name, fi) ==
    IF r.thrown THEN Raised(r)
    ELSE Done(Written(PushLog(SetMetadata(SetScope(r.st, fi, name, r.val), fi, name,
                                          [kind |-> kind, label |-> getLabel(r.st, r.val)]),
                              "Declared " \o name \o " = " \o Json(r.val)),
                      r.st, kind, name, r.val, fi))

\* case 'ExpressionStatement'
AfterExpression(r) == IF r.thrown THEN Raised(r) ELSE Done(r.st)

\* a conditional that schedules its consequent whatever the test gave
AfterTestAlwaysConsequent(r, node, fi) ==
    IF r.thrown THEN Raised(r)
    ELSE Done(Unshift(r.st, fi, <<node.consequent>>))

\* case 'IfStatement', with the test evaluated
AfterTest(r, node, fi) ==
    IF r.thrown THEN Raised(r)
    ELSE IF Truthy(r.val) THEN Done(Unshift(r.st, fi, <<node.consequent>>))
    ELSE IF IsNode(node.alternate) THEN Done(Unshift(r.st, fi, <<node.alternate>>))
    ELSE Done(r.st)

\* a loop that goes round again whatever its test gave
AfterLoopTestKeepsLooping(c, loop, checkNode, fi) ==
    IF c.thrown THEN Raised(c)
    ELSE Done(Unshift(c.st, fi, LoopNodes(loop, checkNode)))

\* cases 'ForStatement' and 'ForLoopCheck', with the loop's test evaluated
AfterLoopTest(c, loop, checkNode, fi) ==
    IF c.thrown THEN Raised(c)
    ELSE IF Truthy(c.val) THEN Done(Unshift(c.st, fi, LoopNodes(loop, checkNode)))
    ELSE Done(c.st)

\* case 'ReturnStatement', with the argument evaluated
AfterReturnValue(r) ==
    IF r.thrown THEN Raised(r)
    ELSE Done(PopUntilFunction(
             [Note(PushLog(r.st, "Returning " \o Json(r.val)), "return", "begin",
                   Len(r.st.stack))
                 EXCEPT !.returnStack = r.st.stack]))

RECURSIVE DeclareAll(_, _, _, _)
\* node.declarations.forEach(...)
DeclareAll(acc, node, fi, i) ==
    IF acc.thrown \/ i > Len(node.declarations) THEN acc
    ELSE DeclareAll(Declare(IF IsNode(node.declarations[i].init)
                            THEN evaluate(acc.st, node.declarations[i].init, fi)
                            ELSE Ok(acc.st, Undefined),
                            node.kind, node.declarations[i].id.name, fi),
                    node, fi, i + 1)

\* the test of a loop: node.test ? evaluate(node.test) : true
LoopTest(st, loop, fi) ==
    IF IsNode(loop.test) THEN evaluate(st, loop.test, fi) ELSE Ok(st, Bool(TRUE))

\* case 'ForStatement', with node.init run
AfterInit(i, node, fi) ==
    IF i.thrown THEN i
    ELSE AfterLoopTest(LoopTest(i.st, node, fi), node,
                       [type |-> "ForLoopCheck", line |-> node.line, original |-> node], fi)

\* the init of a ForStatement
RunInit(st, node, fi) ==
    IF ~IsNode(node.init) THEN Done(st)
    ELSE IF node.init.type = "VariableDeclaration" THEN DeclareAll(Done(st), node.init, fi, 1)
    ELSE AfterExpression(evaluate(st, node.init, fi))

\* a dispatch that runs a block in a frame of its own, pushed without the
\* function-boundary flag
executeNodeBlockFrame(st, node, fi) ==
    CASE node.type = "VariableDeclaration" -> DeclareAll(Done(st), node, fi, 1)
      [] node.type = "ExpressionStatement" -> AfterExpression(evaluate(st, node.expression, fi))
      [] node.type = "IfStatement" -> AfterTest(evaluate(st, node.test, fi), node, fi)
      [] node.type = "BlockStatement" ->
            Done([st EXCEPT !.stack = Append(@, [scope |-> ScopeOf(st, fi),
                                                 metadata |-> EmptyMap,
                                                 nodeQueue |-> node.body,
                                                 isFunction |-> FALSE,
                                                 functionName |-> NoName,
                                                 scopeIsGlobals |-> FALSE])])
      [] node.type = "ForStatement" -> AfterInit(RunInit(st, node, fi), node, fi)
      [] node.type = "ForLoopCheck" ->
            AfterLoopTest(LoopTest(st, node.original, fi), node.original, node, fi)
      [] node.type = "ReturnStatement" -> AfterReturnValue(evaluate(st, node.argument, fi))
      [] OTHER -> Done(Note(st, "warn", node.type, Len(st.stack)))

\* a dispatch that treats an unhandled node type as a runtime error
executeNodeStrict(st, node, fi) ==
    CASE node.type = "VariableDeclaration" -> DeclareAll(Done(st), node, fi, 1)
      [] node.type = "ExpressionStatement" -> AfterExpression(evaluate(st, node.expression, fi))
      [] node.type = "IfStatement" -> AfterTest(evaluate(st, node.test, fi), node, fi)
      [] node.type = "BlockStatement" -> Done(Unshift(st, fi, node.body))
      [] node.type = "ForStatement" -> AfterInit(RunInit(st, node, fi), node, fi)
      [] node.type = "ForLoopCheck" ->
            AfterLoopTest(LoopTest(st, node.original, fi), node.original, node, fi)
      [] node.type = "ReturnStatement" -> AfterReturnValue(evaluate(st, node.argument, fi))
      [] OTHER -> Raised(Throw(Note(st, "warn", node.type, Len(st.stack)),
                               "Unhandled node type: " \o node.type))

executeNode(st, node, fi) ==
    CASE node.type = "VariableDeclaration" -> DeclareAll(Done(st), node, fi, 1)
      [] node.type = "ExpressionStatement" -> AfterExpression(evaluate(st, node.expression, fi))
      [] node.type = "IfStatement" -> AfterTest(evaluate(st, node.test, fi), node, fi)
      [] node.type = "BlockStatement" -> Done(Unshift(st, fi, node.body))
      [] node.type = "ForStatement" -> AfterInit(RunInit(st, node, fi), node, fi)
      [] node.type = "ForLoopCheck" ->
            AfterLoopTest(LoopTest(st, node.original, fi), node.original, node, fi)
      [] node.type = "ReturnStatement" -> AfterReturnValue(evaluate(st, node.argument, fi))
      [] OTHER -> Done(Note(st, "warn", node.type, Len(st.stack)))

-----------------------------------------------------------------------------
(* step() *)

\* a step() without its early return
FinishedGuardMissing(st) == FALSE

\* if (this.state.isFinished) return this.state;
FinishedGuard(st) == st.isFinished

\* const node = currentFrame.nodeQueue.shift()
Shift(st, fi) == [st EXCEPT !.stack[fi].nodeQueue = Tail(@)]

\* a pop of the exhausted frame that ends the run there and then
PopExhaustedFinishes(st) ==
    Note([st EXCEPT !.stack = SubSeq(@, 1, Len(@) - 1), !.isFinished = TRUE],
         "pop", "exhausted", Len(st.stack) - 1)

\* this.state.stack.pop(), when the current frame's queue is empty
PopExhausted(st) ==
    Note([st EXCEPT !.stack = SubSeq(@, 1, Len(@) - 1)], "pop", "exhausted", Len(st.stack) - 1)

\* if (node.loc) this.state.currentLine = node.loc.start.line
SetCurrentLine(st, node) == IF HasLoc(node) THEN [st EXCEPT !.currentLine = node.line] ELSE st

\* a catch that records the message and forgets to halt
CatchErrorKeepsRunning(st, msg) ==
    Note([st EXCEPT !.error = msg], "catch", "executeNode", Len(st.stack))

\* catch (e) { this.state.error = e.message; this.state.isFinished = true; }
CatchError(st, msg) ==
    Note([st EXCEPT !.error = msg, !.isFinished = TRUE], "catch", "executeNode", Len(st.stack))

\* a trampoline that also runs through conditionals without returning
IsTransparentOrConditional(node) ==
    node.type \in {"BlockStatement", "Program", "IfStatement"}

\* ['BlockStatement', 'Program'].includes(node.type)
IsTransparent(node) == node.type \in {"BlockStatement", "Program"}

\* an observer whose invocation leaves a line in the log
NotifyObserverLogging(st) ==
    IF st.onStepCallback
    THEN PushLog(Note(st, "observer", "onStepCallback", Len(st.stack)), "observer")
    ELSE st

\* if (this.onStepCallback) this.onStepCallback(this.state)
NotifyObserver(st) ==
    IF st.onStepCallback THEN Note(st, "observer", "onStepCallback", Len(st.stack)) ELSE st

RECURSIVE step(_)

\* after the try/catch around executeNode: a transparent node makes step() go on
AfterDispatch(r, node) ==
    IF IsTransparent(node)
    THEN step(IF r.thrown THEN CatchError(r.st, r.msg) ELSE r.st)
    ELSE NotifyObserver(IF r.thrown THEN CatchError(r.st, r.msg) ELSE r.st)

\* the explanation is stored, then the node is dispatched; a TypeError thrown by
\* explainNode leaves step() before the dispatch
Dispatch(st, node, fi, ex) ==
    IF ex.thrown THEN Note(st, "throw", "explainNode", fi)
    ELSE AfterDispatch(executeNode(Note([st EXCEPT !.lastExplanation = ex.text,
                                                   !.dispatchStack = st.stack,
                                                   !.dispatchNode = node],
                                        "dispatch", node.type, fi),
                                   node, fi),
                       node)

step(st) ==
    IF FinishedGuard(st) THEN st
    ELSE IF Len(st.stack) = 0 THEN Note([st EXCEPT !.isFinished = TRUE], "finish", "empty", 0)
    ELSE IF st.stack[Len(st.stack)].nodeQueue = << >> THEN step(PopExhausted(st))
    ELSE Dispatch(SetCurrentLine(Shift(st, Len(st.stack)),
                                 Head(st.stack[Len(st.stack)].nodeQueue)),
                  Head(st.stack[Len(st.stack)].nodeQueue),
                  Len(st.stack),
                  explainNode(Head(st.stack[Len(st.stack)].nodeQueue)))

-----------------------------------------------------------------------------
(* The closure createDOMProxy hands to target.addEventListener *)

\* () => { log(`Triggered ...`); callFunction(callback, []); onStepCallback?.(state) }
\* callFunction(callback, []) with a callback that is no function node: reading
\* fnNode.id of undefined or null throws at once; any other value has no params,
\* so the call is logged and fnNode.params.forEach throws.  The TypeError leaves
\* the closure: nothing is pushed, isFinished is untouched, no observer is called.
CallNonFunction(st, callback) ==
    Note(IF callback \in {Undefined, Null} THEN st
         ELSE PushLog(st, "Calling (anonymous function)()"),
         "throw", "callFunction", Len(st.stack))

\* the closure, with the firing logged
AfterTriggered(st, l) ==
    IF IsFunctionNode(l.callback) THEN NotifyObserver(callFunction(st, l.callback.v, << >>))
    ELSE CallNonFunction(st, l.callback)

FireListener(st, l) ==
    AfterTriggered(Note(PushLog(st, "Triggered " \o l.type \o " event on " \o l.selector),
                        "fire", l.selector, Len(st.stack)),
                   l)

-----------------------------------------------------------------------------
(* The programs run: each is the body of the Program node acorn returns *)

N(n) == Literal(Num(n))
S(str) == Literal(Str(str))
Id(name) == Identifier(name)
Call(name, args) == CallExpression(Identifier(name), args)
Method(obj, p, args) == CallExpression(MemberExpression(Identifier(obj), p), args)

\* let a = 1; a += 2; const b = a; b2 = b * 2;
ProgDeclare ==
    << VariableDeclaration(1, "let", "a", N(1)),
       ExpressionStatement(2, AssignmentExpression("+=", Id("a"), N(2))),
       VariableDeclaration(3, "const", "b", Id("a")),
       ExpressionStatement(4, AssignmentExpression("=", Id("b2"),
                                                   BinaryExpression("*", Id("b"), N(2)))) >>

\* let x = 0; for (let i = 0; i < 3; i++) { x++; }
ProgLoop ==
    << VariableDeclaration(1, "let", "x", N(0)),
       ForStatement(2, VariableDeclaration(2, "let", "i", N(0)),
                    BinaryExpression("<", Id("i"), N(3)),
                    UpdateExpression("++", FALSE, Id("i")),
                    BlockStatement(2, <<ExpressionStatement(3,
                                          UpdateExpression("++", FALSE, Id("x")))>>)) >>

\* function g() { return 1; }
\* function f(a) { if (a > 0) { return g(); } x = 7; }
\* let x = 0; f(1); x = 2;
ProgCalls ==
    << FunctionDeclaration(1, "g", << >>, BlockStatement(1, <<ReturnStatement(1, N(1))>>)),
       FunctionDeclaration(2, "f", <<Id("a")>>,
           BlockStatement(2,
               << IfStatement(3, BinaryExpression(">", Id("a"), N(0)),
                              BlockStatement(3, <<ReturnStatement(3, Call("g", << >>))>>),
                              NoNode),
                  ExpressionStatement(4, AssignmentExpression("=", Id("x"), N(7))) >>)),
       VariableDeclaration(5, "let", "x", N(0)),
       ExpressionStatement(6, Call("f", <<N(1)>>)),
       ExpressionStatement(7, AssignmentExpression("=", Id("x"), N(2))) >>

\* function r(n) { r(n + 1); }  r(0);
ProgRecursive ==
    << FunctionDeclaration(1, "r", <<Id("n")>>,
           BlockStatement(1, <<ExpressionStatement(1,
               Call("r", <<BinaryExpression("+", Id("n"), N(1))>>))>>)),
       ExpressionStatement(2, Call("r", <<N(0)>>)) >>

\* let a = 1; a = missing + 1; a = 2;
ProgError ==
    << VariableDeclaration(1, "let", "a", N(1)),
       ExpressionStatement(2, AssignmentExpression("=", Id("a"),
                                                   BinaryExpression("+", Id("missing"), N(1)))),
       ExpressionStatement(3, AssignmentExpression("=", Id("a"), N(2))) >>

\* const btn = document.getElementById('btn');
\* btn.addEventListener('click', function () { return 1; });
ProgListenReturn ==
    << VariableDeclaration(1, "const", "btn", Method("document", "getElementById", <<S("btn")>>)),
       ExpressionStatement(2, Method("btn", "addEventListener",
           <<S("click"),
             FunctionExpression(<< >>, BlockStatement(2, <<ReturnStatement(2, N(1))>>))>>)) >>

\* let n = 0;
\* function show() { n = n; }
\* const next = document.querySelector('.next');
\* next.addEventListener('click', () => { n++; show(); });
\* missing;
\* n = 9;
ProgListenError ==
    << VariableDeclaration(1, "let", "n", N(0)),
       FunctionDeclaration(2, "show", << >>,
           BlockStatement(2, <<ExpressionStatement(2,
               AssignmentExpression("=", Id("n"), Id("n")))>>)),
       VariableDeclaration(3, "const", "next", Method("document", "querySelector", <<S(".next")>>)),
       ExpressionStatement(4, Method("next", "addEventListener",
           <<S("click"),
             ArrowFunctionExpression(<< >>, BlockStatement(4,
                 << ExpressionStatement(4, UpdateExpression("++", FALSE, Id("n"))),
                    ExpressionStatement(4, Call("show", << >>)) >>))>>)),
       ExpressionStatement(5, Id("missing")),
       ExpressionStatement(6, AssignmentExpression("=", Id("n"), N(9))) >>

\* alert(); let a = 1;
ProgExplain ==
    << ExpressionStatement(1, Call("alert", << >>)),
       VariableDeclaration(2, "let", "a", N(1)) >>

\* console.log("hi", 1);
\* const n = parseInt(prompt("n"));
\* if (isNaN(n)) { alert("bad"); } else { m = n + 1; }
ProgNative ==
    << ExpressionStatement(1, Method("console", "log", <<S("hi"), N(1)>>)),
       VariableDeclaration(2, "const", "n", Call("parseInt", <<Call("prompt", <<S("n")>>)>>)),
       IfStatement(3, Call("isNaN", <<Id("n")>>),
                   BlockStatement(3, <<ExpressionStatement(3, Call("alert", <<S("bad")>>))>>),
                   BlockStatement(3, <<ExpressionStatement(3,
                       AssignmentExpression("=", Id("m"),
                                            BinaryExpression("+", Id("n"), N(1))))>>)) >>

\* let flag = false; if (!flag) { flag = true; } while (flag) { }
\* const sq = (n) => n * n; const r = sq(2);
ProgOther ==
    << VariableDeclaration(1, "let", "flag", Literal(Bool(FALSE))),
       IfStatement(2, UnaryExpression("!", Id("flag")),
                   BlockStatement(2, <<ExpressionStatement(2,
                       AssignmentExpression("=", Id("flag"), Literal(Bool(TRUE))))>>),
                   NoNode),
       WhileStatement(3, Id("flag"), BlockStatement(3, << >>)),
       VariableDeclaration(4, "const", "sq",
           ArrowFunctionExpression(<<Id("n")>>, BinaryExpression("*", Id("n"), Id("n")))),
       VariableDeclaration(5, "const", "r", Call("sq", <<N(2)>>)) >>

\* for (;;) { }
ProgForever ==
    << ForStatement(1, NoNode, NoNode, NoNode, BlockStatement(1, << >>)) >>

\* const w = innerWidth; scrollTo(0, w);
ProgWindow ==
    << VariableDeclaration(1, "const", "w", Id("innerWidth")),
       ExpressionStatement(2, Call("scrollTo", <<N(0), Id("w")>>)) >>

\* function f() { return missing; }  f();  let z = 1;
ProgReturnError ==
    << FunctionDeclaration(1, "f", << >>,
           BlockStatement(1, <<ReturnStatement(1, Id("missing"))>>)),
       ExpressionStatement(2, Call("f", << >>)),
       VariableDeclaration(3, "let", "z", N(1)) >>

\* const btn = document.getElementById('btn');
\* btn.addEventListener('click', alert);
ProgListenNative ==
    << VariableDeclaration(1, "const", "btn", Method("document", "getElementById", <<S("btn")>>)),
       ExpressionStatement(2, Method("btn", "addEventListener", <<S("click"), Id("alert")>>)) >>

\* let innerWidth = 3;
\* let v = 1;
\* function f(v, console, m) { let w = v; let c = console; let u = innerWidth; y = m; v = 2;
\*                            var q; }
\* f(5, 6);
\* let z = v;
ProgShadow ==
    << VariableDeclaration(1, "let", "innerWidth", N(3)),
       VariableDeclaration(2, "let", "v", N(1)),
       FunctionDeclaration(3, "f", <<Id("v"), Id("console"), Id("m")>>,
           BlockStatement(3, << VariableDeclaration(3, "let", "w", Id("v")),
                                VariableDeclaration(3, "let", "c", Id("console")),
                                VariableDeclaration(3, "let", "u", Id("innerWidth")),
                                ExpressionStatement(3, AssignmentExpression("=", Id("y"), Id("m"))),
                                ExpressionStatement(3, AssignmentExpression("=", Id("v"), N(2))),
                                VariableDeclaration(4, "var", "q", NoNode) >>)),
       ExpressionStatement(5, Call("f", <<N(5), N(6)>>)),
       VariableDeclaration(6, "let", "z", Id("v")) >>

\* let a = 8; a -= 2; a *= 3; a /= 9; let s = "x"; s += 1;
\* function h(p) { p += a; function k() { } }  h(5);
ProgCompound ==
    << VariableDeclaration(1, "let", "a", N(8)),
       ExpressionStatement(2, AssignmentExpression("-=", Id("a"), N(2))),
       ExpressionStatement(3, AssignmentExpression("*=", Id("a"), N(3))),
       ExpressionStatement(4, AssignmentExpression("/=", Id("a"), N(9))),
       VariableDeclaration(5, "let", "s", S("x")),
       ExpressionStatement(6, AssignmentExpression("+=", Id("s"), N(1))),
       FunctionDeclaration(7, "h", <<Id("p")>>,
           BlockStatement(7, << ExpressionStatement(7,
                                    AssignmentExpression("+=", Id("p"), Id("a"))),
                                FunctionDeclaration(7, "k", << >>, BlockStatement(7, << >>)) >>)),
       ExpressionStatement(8, Call("h", <<N(5)>>)) >>

\* function f() { }  missing;  f();
ProgErrorThenCall ==
    << FunctionDeclaration(1, "f", << >>, BlockStatement(1, << >>)),
       ExpressionStatement(2, Id("missing")),
       ExpressionStatement(3, Call("f", << >>)) >>

Programs ==
    << ProgDeclare, ProgLoop, ProgCalls, ProgRecursive, ProgError, ProgListenReturn,
       ProgListenError, ProgExplain, ProgNative, ProgOther, ProgForever, ProgWindow,
       ProgReturnError, ProgListenNative, ProgShadow, ProgCompound, ProgErrorThenCall >>

-----------------------------------------------------------------------------
(* The constructor *)

\* the native functions the constructor puts in globals
NativeGlobals ==
    [name \in {"isNaN", "parseFloat", "parseInt", "alert", "prompt"} |-> Native(name)]

RECURSIVE Hoist(_, _, _)
\* the pre-scan: every top-level FunctionDeclaration is bound in globals, kind 'func'
Hoist(body, i, gm) ==
    IF i > Len(body) THEN gm
    ELSE IF body[i].type = "FunctionDeclaration"
         THEN Hoist(body, i + 1,
                    [globals |-> Put(gm.globals, body[i].id.name, FnNode(body[i])),
                     metadata |-> Put(gm.metadata, body[i].id.name,
                                      [kind |-> "func", label |-> NoName])])
         ELSE Hoist(body, i + 1, gm)

\* the frame the constructor creates: its scope is the globals object itself
GlobalFrame(body) ==
    [scope |-> EmptyMap,
     metadata |-> EmptyMap,
     nodeQueue |-> body,
     isFunction |-> FALSE,
     functionName |-> NoName,
     scopeIsGlobals |-> TRUE]

\* the history of an operation: which one (arg: the closure fired), the finished
\* flag and the stack depth it started from, what it did, the frames it pushed, the
\* stack as a return found it, the stack as its last dispatch found it and the node
\* dispatched, the identifiers it read and the bindings it wrote
NoOp == [op |-> "new", arg |-> 0, wasFinished |-> FALSE, depth |-> 0, trace |-> << >>,
         pushed |-> << >>, returnStack |-> << >>,
         dispatchStack |-> << >>, dispatchNode |-> NoNode, reads |-> << >>, writes |-> << >>]

Init ==
    /\ prog \in 1..Len(Programs)
    /\ previewWindow \in BOOLEAN
    /\ stack = <<GlobalFrame(Programs[prog])>>
    /\ LET gm == Hoist(Programs[prog], 1, [globals |-> NativeGlobals, metadata |-> EmptyMap])
       IN  globals = gm.globals /\ globalMetadata = gm.metadata
    /\ logs = << >>
    /\ isFinished = FALSE
    /\ error = NoError
    /\ currentLine = 1
    /\ lastExplanation = "Ready to start."
    /\ onStepCallback = FALSE
    /\ listeners = << >>
    /\ dom = EmptyMap
    /\ last = NoOp
    /\ nOps = 0
    /\ \E surface \in BOOLEAN :
          twin = [st |-> [stack |-> stack, globals |-> globals,
                          globalMetadata |-> globalMetadata, logs |-> logs,
                          isFinished |-> isFinished, error |-> error,
                          currentLine |-> currentLine,
                          lastExplanation |-> lastExplanation,
                          onStepCallback |-> FALSE, listeners |-> listeners, dom |-> dom,
                          previewWindow |-> surface,
                          trace |-> << >>, pushed |-> << >>, returnStack |-> << >>,
                          dispatchStack |-> << >>, dispatchNode |-> NoNode, reads |-> << >>, writes |-> << >>],
                  visible |-> 0, visibleOwn |-> 0]

-----------------------------------------------------------------------------
(* Operations *)

\* the execution state as the methods see it, with an empty history
Cur ==
    [stack |-> stack, globals |-> globals, globalMetadata |-> globalMetadata, logs |-> logs,
     isFinished |-> isFinished, error |-> error, currentLine |-> currentLine,
     lastExplanation |-> lastExplanation, onStepCallback |-> onStepCallback,
     listeners |-> listeners, dom |-> dom, previewWindow |-> previewWindow,
     trace |-> << >>, pushed |-> << >>, returnStack |-> << >>,
         dispatchStack |-> << >>, dispatchNode |-> NoNode, reads |-> << >>, writes |-> << >>]

Commit(r, op, arg) ==
    /\ Len(r.stack) <= MaxStack
    /\ stack' = r.stack
    /\ globals' = r.globals
    /\ globalMetadata' = r.globalMetadata
    /\ logs' = r.logs
    /\ isFinished' = r.isFinished
    /\ error' = r.error
    /\ currentLine' = r.currentLine
    /\ lastExplanation' = r.lastExplanation
    /\ listeners' = r.listeners
    /\ dom' = r.dom
    /\ last' = [op |-> op, arg |-> arg, wasFinished |-> isFinished, depth |-> Len(stack),
                trace |-> r.trace, pushed |-> r.pushed, returnStack |-> r.returnStack,
                dispatchStack |-> r.dispatchStack, dispatchNode |-> r.dispatchNode,
                reads |-> r.reads,
                writes |-> r.writes]
    /\ UNCHANGED <<prog, previewWindow, onStepCallback>>

\* the second interpreter after the same operation: r2 is its result, r1 the
\* result of the first; its history is dropped, its visible steps are counted
TwinAfter(r2, r1) ==
    twin' = [st |-> [r2 EXCEPT !.trace = << >>, !.pushed = << >>, !.returnStack = << >>,
                               !.dispatchStack = << >>, !.dispatchNode = NoNode,
                               !.reads = << >>, !.writes = << >>],
             visible |-> twin.visible
                 + Len(SelectSeq(r2.trace, LAMBDA x : x.e = "dispatch"
                                     /\ x.type \notin {"BlockStatement", "Program"})),
             visibleOwn |-> twin.visibleOwn
                 + Len(SelectSeq(r1.trace, LAMBDA x : x.e = "dispatch"
                                     /\ x.type \notin {"BlockStatement", "Program"}))]

\* the driver calls step()
Step ==
    /\ isFinished \/ nOps < MaxOps
    /\ Commit(step(Cur), "step", 0)
    /\ TwinAfter(step(twin.st), step(Cur))
    /\ nOps' = IF isFinished THEN nOps ELSE nOps + 1

\* the live surface fires an event for which closure i was registered
FireEvent(i) ==
    /\ nOps < MaxOps
    /\ Commit(FireListener(Cur, listeners[i]), "fire", i)
    /\ TwinAfter(IF i <= Len(twin.st.listeners)
                 THEN FireListener(twin.st, twin.st.listeners[i])
                 ELSE twin.st,
                 FireListener(Cur, listeners[i]))
    /\ nOps' = nOps + 1

\* the driver calls setOnStep(cb)
SetOnStep ==
    /\ ~onStepCallback
    /\ onStepCallback' = TRUE
    /\ last' = [NoOp EXCEPT !.op = "setOnStep", !.wasFinished = isFinished,
                            !.depth = Len(stack)]
    /\ UNCHANGED <<prog, previewWindow, stack, globals, globalMetadata, logs, isFinished,
                   error, currentLine, lastExplanation, listeners, dom, nOps, twin>>

Next ==
    \/ Step
    \/ \E i \in 1..Len(listeners) : FireEvent(i)
    \/ SetOnStep

Spec == Init /\ [][Next]_vars

-----------------------------------------------------------------------------
(* Reading the history of the last operation *)

Events(e) == SelectSeq(last.trace, LAMBDA x : x.e = e)

\* the nodes the last operation dispatched, and those of them that count as a step
Dispatched == Events("dispatch")
Visible == SelectSeq(last.trace, LAMBDA x : x.e = "dispatch"
                                            /\ x.type \notin {"BlockStatement", "Program"})

RanStep == last.op = "step" /\ ~last.wasFinished
Fired == last.op = "fire"

-----------------------------------------------------------------------------
(* C1 *)

\* C1: every step() made while finished is false dispatches exactly one visible
\* node, the last node it dispatches, unless the whole stack is exhausted, in which
\* case it dispatches no visible node and sets finished.
C1_StepDispatchesOneVisibleNode ==
    RanStep =>
        \/ /\ Len(Visible) = 1
           /\ Dispatched[Len(Dispatched)] = Visible[1]
        \/ /\ Len(Visible) = 0
           /\ stack = << >>
           /\ isFinished

-----------------------------------------------------------------------------
(* C2 *)

\* C2: between operations, if finished is false then the call stack is non-empty.
C2_StackNonEmptyWhileRunning == ~isFinished => Len(stack) > 0

-----------------------------------------------------------------------------
(* C3 *)

\* C3: the bottom (global) frame is never removed from the call stack, neither by
\* the automatic pop of an exhausted frame nor by a Return.
C3_GlobalFrameNeverRemoved == Len(stack) >= 1 /\ stack[1].scopeIsGlobals

-----------------------------------------------------------------------------
(* C4 *)

\* C4 as stated: each Return dispatched while a function-boundary frame is on the
\* stack pops from the top until exactly one function-boundary frame is removed.
C4_EveryReturnPopsOneFunctionFrame ==
    (last.op = "step" /\ Len(Visible) = 1 /\ Visible[1].type = "ReturnStatement"
        /\ \E i \in 1..Len(last.dispatchStack) : last.dispatchStack[i].isFunction)
    => /\ Len(SelectSeq(last.trace, LAMBDA x : x.e = "retpop" /\ x.type = "function")) = 1
       /\ Len(stack) < Len(last.dispatchStack) + Len(last.pushed)

\* C4, amended: a Return whose argument evaluates without a runtime error, with a
\* function-boundary frame on the stack, pops from the top until exactly one
\* function-boundary frame is removed and stops: the frames beneath it are left as
\* the Return found them.  A Return whose argument raises pops no frame.
C4_ReturnPopsOneFunctionFrame ==
    /\ (last.op = "step" /\ Len(Events("return")) > 0
          /\ \E i \in 1..Len(last.returnStack) : last.returnStack[i].isFunction)
       => /\ Len(Events("return")) = 1
          /\ Len(SelectSeq(last.trace, LAMBDA x : x.e = "retpop" /\ x.type = "function")) = 1
          /\ Events("retpop")[Len(Events("retpop"))].type = "function"
          /\ \E k \in 1..Len(last.returnStack) :
                /\ last.returnStack[k].isFunction
                /\ \A j \in (k + 1)..Len(last.returnStack) : ~last.returnStack[j].isFunction
                /\ stack = SubSeq(last.returnStack, 1, k - 1)
    /\ (last.op = "step" /\ Len(Visible) = 1 /\ Visible[1].type = "ReturnStatement"
          /\ Len(Events("raise")) > 0)
       => /\ Len(Events("retpop")) = 0
          /\ Len(stack) >= Len(last.dispatchStack)

\* a Return has popped a callee's frame and left two frames beneath it in place
C4_Witness ==
    /\ last.op = "step"
    /\ Len(Events("return")) = 1
    /\ Len(last.returnStack) = 3
    /\ Len(stack) = 2

-----------------------------------------------------------------------------
(* C5 *)

\* C5: evaluating a call whose callee is an interpreted function node pushes exactly
\* one new frame on top of the stack, with the function-boundary flag set and a work
\* queue holding only the function body; a call of a host/native function pushes none.
C5_CallPushesOneFunctionFrame ==
    last.op = "step" =>
        /\ Len(last.pushed) = Len(Events("call"))
        /\ Len(Events("push")) = Len(Events("call"))
        /\ \A k \in 1..Len(last.trace) :
              /\ last.trace[k].e = "call" =>
                    /\ k < Len(last.trace)
                    /\ last.trace[k + 1].e = "push"
                    /\ last.trace[k + 1].n = last.trace[k].n + 1
              /\ last.trace[k].e = "native" =>
                    \A j \in (k + 1)..Len(last.trace) :
                        last.trace[j].e = "push" =>
                            \E c \in (k + 1)..(j - 1) : last.trace[c].e = "call"
        /\ \A k \in 1..Len(last.pushed) :
              /\ last.pushed[k].fnNode.type \in FunctionTypes
              /\ last.pushed[k].frame.isFunction
              /\ last.pushed[k].frame.nodeQueue = <<last.pushed[k].fnNode.body>>
              /\ Len(Events("retpop")) = 0 =>
                    stack[Events("push")[k].n] = last.pushed[k].frame

\* a step has called an interpreted function and its frame is on top of the stack
C5_Witness ==
    /\ last.op = "step"
    /\ Len(Events("call")) = 1
    /\ Len(stack) = last.depth + 1
    /\ stack[Len(stack)].isFunction

-----------------------------------------------------------------------------
(* C6 *)

\* C6: when dispatch or evaluation of a node raises a runtime error, step() returns
\* normally: the dispatch ends there, the error's message is in the error field and
\* finished is true.
C6_RuntimeErrorCaptured ==
    (last.op = "step" /\ Len(Events("raise")) > 0) =>
        /\ Len(Events("raise")) = 1
        /\ Len(Events("throw")) = 0
        /\ error = Events("raise")[1].type
        /\ isFinished
        /\ \A k \in 1..Len(last.trace) :
              last.trace[k].e = "raise" =>
                  \A j \in (k + 1)..Len(last.trace) : last.trace[j].e \in {"catch", "observer"}

\* a step has ended in the error of an identifier that resolves nowhere
C6_Witness ==
    /\ last.op = "step"
    /\ Len(Events("raise")) = 1
    /\ error = "missing is not defined"

-----------------------------------------------------------------------------
(* C7 *)

\* C7: once a runtime error is recorded, finished stays true (and so no further
\* node is dispatched) under every later sequence of step() calls and event firings.
C7_ErrorHaltsForGood == error # NoError => isFinished

-----------------------------------------------------------------------------
(* C8 *)

\* C8: step() called while finished is true changes nothing (stack, scopes and
\* metadata, logs, error, current line, explanation) and does not invoke the observer.
C8_StepWhenFinishedIsNoOp ==
    [][(isFinished /\ last'.op = "step")
          => /\ UNCHANGED <<stack, globals, globalMetadata, logs, isFinished, error,
                            currentLine, lastExplanation, onStepCallback, listeners, dom>>
             /\ last'.trace = << >>]_vars

\* step() has been called on a finished interpreter that still has pending nodes
C8_Witness ==
    /\ last.op = "step"
    /\ last.wasFinished
    /\ onStepCallback
    /\ Len(stack) > 0
    /\ stack[Len(stack)].nodeQueue # << >>

-----------------------------------------------------------------------------
(* C9 *)

-----------------------------------------------------------------------------
(* C10 *)

\* C10: once an observer is set, it is invoked once after every visible step of
\* step(), also one that ends in a runtime error, and once after every event
\* firing; block expansions and frame pops do not invoke it.
C10_ObserverOncePerVisibleStep ==
    onStepCallback =>
        /\ last.op = "step" =>
              /\ Len(Events("observer")) = Len(Visible)
              /\ Len(Visible) = 1 => last.trace[Len(last.trace)].e = "observer"
        /\ Fired =>
              /\ Len(Events("observer")) = 1
              /\ last.trace[Len(last.trace)].e = "observer"

-----------------------------------------------------------------------------
(* C11 *)

\* where the three lookups of a read find the name
InScope(r) == Has(r.scope, r.name)
InGlobals(r) == Has(r.globals, r.name)
InWindow(r) == r.window /\ Has(WindowProps, r.name)

\* C11: every identifier read resolves in the order current frame's scope, global
\* scope, live surface; the first source that holds the name gives the value, and
\* '<name> is not defined' is raised only when all three lookups fail.
C11_IdentifierResolutionOrder ==
    \A k \in 1..Len(last.reads) :
        LET r == last.reads[k]
        IN  /\ InScope(r) => r.val = r.scope[r.name]
            /\ (~InScope(r) /\ InGlobals(r)) => r.val = r.globals[r.name]
            /\ (~InScope(r) /\ ~InGlobals(r) /\ InWindow(r)) => r.val = WindowProps[r.name]
            /\ r.thrown => /\ ~InScope(r) /\ ~InGlobals(r) /\ ~InWindow(r)
                            /\ r.msg = r.name \o " is not defined"

-----------------------------------------------------------------------------
(* C12 *)

\* C12: an assignment to an identifier writes to the first scope in which the name
\* already exists (the current frame's scope, then the global scope); when the name
\* exists in neither, the binding is created in the global scope, also when the
\* assignment is dispatched inside a function frame.
C12_AssignmentTargetsFirstScope ==
    \A k \in 1..Len(last.writes) :
        LET w == last.writes[k]
        IN  w.how = "assign" =>
                IF Has(w.scopeBefore, w.name)
                THEN /\ w.scopeAfter = Put(w.scopeBefore, w.name, w.val)
                     /\ w.global \/ w.globalsAfter = w.globalsBefore
                ELSE /\ w.globalsAfter = Put(w.globalsBefore, w.name, w.val)
                     /\ w.global \/ w.scopeAfter = w.scopeBefore

-----------------------------------------------------------------------------
(* C13 *)

\* C13: the scope of a frame pushed by an interpreted call is a fresh copy of the
\* global scope as it is at call time, overlaid with one binding per declared
\* parameter (the argument at the same position, undefined when it is missing); it
\* holds no binding that exists only in the caller's frame and is not the global
\* scope object itself.
C13_CallScopeIsGlobalsPlusParams ==
    \A k \in 1..Len(last.pushed) :
        LET p == last.pushed[k]
            params == {p.fnNode.params[i].name : i \in 1..Len(p.fnNode.params)}
        IN  /\ ~p.frame.scopeIsGlobals
            /\ DOMAIN p.frame.scope = DOMAIN p.globals \cup params
            /\ \A g \in DOMAIN p.globals \ params : p.frame.scope[g] = p.globals[g]
            /\ \A i \in 1..Len(p.fnNode.params) :
                  (\A j \in (i + 1)..Len(p.fnNode.params) :
                       p.fnNode.params[j].name # p.fnNode.params[i].name)
                  => p.frame.scope[p.fnNode.params[i].name] = Arg(p.args, i)
            /\ \A c \in DOMAIN p.caller \ (DOMAIN p.globals \cup params) :
                  c \notin DOMAIN p.frame.scope

\* a function has been called from inside another function whose frame binds a
\* name the globals do not have
C13_Witness ==
    /\ last.op = "step"
    /\ \E k \in 1..Len(last.pushed) :
          /\ last.pushed[k].fnNode.params = << >>
          /\ DOMAIN last.pushed[k].caller \ DOMAIN last.pushed[k].globals # {}

-----------------------------------------------------------------------------
(* C14 *)

\* C14: with x declared, `for (let i = 0; i < 3; i++) { x++; }` takes exactly 10
\* visible steps from the loop's entry step to the loop-check that exits: the entry
\* step, then three times body (x++), update (i++), loop-check; after them x has
\* been incremented 3 times and i is 3.  (In ProgLoop the declaration of x is step 1,
\* so the loop runs in steps 2..11.)
C14_LoopTakesTenSteps ==
    (prog = 2 /\ RanStep /\ nOps \in 2..11) =>
        /\ Len(Visible) = 1
        /\ Visible[1].type = (IF nOps = 2 THEN "ForStatement"
                              ELSE IF nOps % 3 = 2 THEN "ForLoopCheck"
                              ELSE "ExpressionStatement")
        /\ nOps % 3 = 0 => Dispatched[1].type = "BlockStatement"
        /\ globals["x"] = Num(nOps \div 3)
        /\ globals["i"] = Num((nOps - 1) \div 3)
        /\ (stack[1].nodeQueue = << >>) <=> (nOps = 11)

\* the tenth step of the loop: the loop-check that exits, with x = 3 and i = 3
C14_Witness ==
    /\ prog = 2
    /\ RanStep
    /\ nOps = 11
    /\ Visible[1].type = "ForLoopCheck"
    /\ globals["x"] = Num(3)
    /\ globals["i"] = Num(3)
    /\ stack[1].nodeQueue = << >>

-----------------------------------------------------------------------------
(* C15 *)

\* C15: dispatching a declaration `kind x = expr` in a frame binds x in that frame's
\* scope to the value of expr (undefined when there is no initializer), records a
\* metadata entry for x with that kind in the same frame and appends one log entry;
\* a hoisted top-level function declaration has a metadata entry too.  (In
\* ProgDeclare, `const b = a` is step 3 and a is 3 by then; in ProgShadow `var q;`
\* has no initializer.)
C15_DeclarationBindsAndRecords ==
    /\ \A k \in 1..Len(last.writes) :
          LET w == last.writes[k]
          IN  w.how \in {"const", "let", "var"} =>
                  /\ w.scopeAfter = Put(w.scopeBefore, w.name, w.val)
                  /\ Has(w.metadataAfter, w.name)
                  /\ w.metadataAfter[w.name].kind = w.how
                  /\ w.logged = <<"Declared " \o w.name \o " = " \o Json(w.val)>>
                  /\ w.global \/ w.globalsAfter = w.globalsBefore
                  /\ (prog = 15 /\ w.name = "q") => (w.val = Undefined /\ ~w.global)
    /\ \A i \in 1..Len(Programs[prog]) :
          Programs[prog][i].type = "FunctionDeclaration" =>
              /\ Has(globals, Programs[prog][i].id.name)
              /\ Has(globalMetadata, Programs[prog][i].id.name)
              /\ globalMetadata[Programs[prog][i].id.name].kind = "func"
    /\ (prog = 1 /\ RanStep /\ nOps = 3) =>
          /\ globals["b"] = Num(3)
          /\ globalMetadata["b"].kind = "const"

\* a declaration without initializer has been dispatched inside a function frame
C15_Witness ==
    /\ prog = 15
    /\ Len(stack) = 2
    /\ \E k \in 1..Len(last.writes) :
          /\ last.writes[k].name = "q"
          /\ last.writes[k].how = "var"
    /\ Has(stack[2].scope, "q")
    /\ stack[2].metadata["q"].kind = "var"

-----------------------------------------------------------------------------
(* C16 *)

\* C16: a compound assignment (+=, -=, *=, /=) to an identifier reads the target's
\* value as it is when the step runs, combines it with the right-hand value and
\* stores the result in the scope that holds the name: `let a = 1; a += 2;` gives
\* a = 3 after two steps (ProgDeclare), and ProgCompound runs -=, *=, /=, += on a
\* string and += on a parameter inside a function frame.
C16_CompoundAssignmentCombines ==
    /\ (prog = 1 /\ RanStep /\ nOps = 2) => globals["a"] = Num(3)
    /\ (prog = 16 /\ RanStep) =>
          /\ nOps = 2 => globals["a"] = Num(6)
          /\ nOps = 3 => globals["a"] = Num(18)
          /\ nOps = 4 => globals["a"] = Num(2)
          /\ nOps = 6 => globals["s"] = Str("x1")
          /\ nOps = 9 => /\ stack[2].scope["p"] = Num(7)
                         /\ globals["a"] = Num(2)
          /\ nOps \in {2, 3, 4, 6, 9} =>
                /\ Len(last.writes) = 1
                /\ last.writes[1].how = "assign"
                /\ last.writes[1].scopeAfter
                      = Put(last.writes[1].scopeBefore, last.writes[1].name, last.writes[1].val)

\* `p += a` has run inside the function frame of h
C16_Witness ==
    /\ prog = 16
    /\ RanStep
    /\ nOps = 9
    /\ Len(stack) = 2
    /\ stack[2].scope["p"] = Num(7)

-----------------------------------------------------------------------------
(* C17 *)

\* C17: a unary expression yields the negation of its operand, so a conditional
\* whose test is `!flag` schedules its consequent exactly when flag is falsy: in
\* ProgOther, where flag is false, step 2 dispatches `if (!flag) { flag = true; }`
\* and leaves the consequent block at the head of the frame's queue.
C17_UnaryTestSchedulesConsequent ==
    (prog = 10 /\ RanStep /\ nOps = 2) =>
        /\ Visible[1].type = "IfStatement"
        /\ ~Truthy(globals["flag"])
        /\ stack[1].nodeQueue # << >>
        /\ Head(stack[1].nodeQueue) = Programs[10][2].consequent

-----------------------------------------------------------------------------
(* C18 *)

\* C18: computing the explanation of a pending node never throws, whatever the
\* node's shape, so no exception from explainNode leaves step().
C18_ExplanationNeverThrows ==
    \A k \in 1..Len(last.trace) :
        ~(last.trace[k].e = "throw" /\ last.trace[k].type = "explainNode")

-----------------------------------------------------------------------------
(* C19 *)

\* C19: dispatching a node of unrecognized kind (a top-level or nested function
\* declaration, a while statement) is a non-fatal no-op: it is the one visible node
\* of its step and leaves the stack with the rest of the queue, every scope and
\* metadata map, the logs, the error field and finished as they were.
C19_UnrecognizedNodeIsNoOp ==
    [][(last'.op = "step" /\ \E k \in 1..Len(last'.trace) : last'.trace[k].e = "warn")
          => /\ stack' = last'.dispatchStack
             /\ Len(SelectSeq(last'.trace,
                              LAMBDA x : x.e = "dispatch"
                                         /\ x.type \notin {"BlockStatement", "Program"})) = 1
             /\ last'.trace[Len(last'.trace)].e \in {"warn", "observer"}
             /\ UNCHANGED <<globals, globalMetadata, logs, error, isFinished, listeners, dom>>
             /\ ~isFinished'
             /\ Len(stack') >= 1
             /\ \A i \in 1..Len(stack') :
                   \E j \in 1..Len(stack) :
                       /\ stack'[i].scope = stack[j].scope
                       /\ stack'[i].metadata = stack[j].metadata]_vars

\* a function declaration nested in a function body has been dispatched
C19_Witness ==
    /\ last.op = "step"
    /\ Len(stack) = 2
    /\ \E k \in 1..Len(last.trace) :
          /\ last.trace[k].e = "warn"
          /\ last.trace[k].type = "FunctionDeclaration"
          /\ last.trace[k].n = 2

-----------------------------------------------------------------------------
(* C20 *)

\* C20: registering a listener through a wrapped element's addEventListener appends
\* a registration entry to the log at registration time: the step that registers
\* leaves the log longer by at least one entry per registration.
C20_RegistrationIsLogged ==
    [][(last'.op = "step" /\ \E k \in 1..Len(last'.trace) : last'.trace[k].e = "register")
          => Len(logs') >= Len(logs) + Len(SelectSeq(last'.trace, LAMBDA x : x.e = "register"))
      ]_vars

-----------------------------------------------------------------------------
(* C21 *)

-----------------------------------------------------------------------------
(* C22 *)

\* C22: after a Return is dispatched in function frame F (and its argument has
\* evaluated without error), F is no longer on the stack and no node that was still
\* pending in F's queue is ever dispatched, also when the argument calls an
\* interpreted function: in ProgCalls, f returns g() and `x = 7` is never run.
C22_ReturnLeavesItsFrame ==
    /\ (last.op = "step" /\ Len(Visible) = 1 /\ Visible[1].type = "ReturnStatement"
          /\ Len(Events("raise")) = 0)
       => Len(stack) < Len(last.dispatchStack)
    /\ prog = 3 => \A k \in 1..Len(logs) : logs[k] # "Assigned x = 7"

-----------------------------------------------------------------------------
(* C23 *)

\* C23: a step() that finds the active frame's queue empty pops that frame and goes
\* on with the new top frame inside the same call, once for each exhausted frame on
\* top of the stack (k of them), until it dispatches the first pending node of the
\* frame beneath or the stack is empty.  The pops count for nothing: the step has at
\* most one visible node, and when the stack runs empty it only sets finished, with
\* logs, error, line and explanation untouched.  finished is true without an error
\* only when the stack is empty.
C23_TrampolinePopsExhaustedFrames ==
    [][/\ (last'.op = "step" /\ ~isFinished /\ stack # << >>
             /\ stack[Len(stack)].nodeQueue = << >>)
          => LET t == last'.trace
                 k == CHOOSE n \in 0..Len(t) :
                          /\ \A j \in 1..n : t[j].e = "pop"
                          /\ n = Len(t) \/ t[n + 1].e # "pop"
             IN  /\ k >= 1 /\ k <= Len(stack) /\ Len(t) > k
                 /\ \A j \in 1..k : stack[Len(stack) - j + 1].nodeQueue = << >>
                 /\ Len(SelectSeq(t, LAMBDA x : x.e = "dispatch"
                                       /\ x.type \notin {"BlockStatement", "Program"})) <= 1
                 /\ IF k = Len(stack)
                    THEN /\ t[k + 1].e = "finish" /\ Len(t) = k + 1
                         /\ stack' = << >> /\ isFinished'
                         /\ UNCHANGED <<logs, error, currentLine, lastExplanation, globals>>
                    ELSE /\ stack[Len(stack) - k].nodeQueue # << >>
                         /\ t[k + 1].e = "dispatch"
                         /\ t[k + 1].n = Len(stack) - k
                         /\ t[k + 1].type = Head(stack[Len(stack) - k].nodeQueue).type
       /\ (isFinished' /\ error' = NoError) => stack' = << >>]_vars

\* a step popped two exhausted frames, a callback's and that of the function it
\* called, and then dispatched a node of the frame beneath
C23_Witness ==
    /\ last.op = "step"
    /\ Len(last.trace) >= 3
    /\ last.trace[1].e = "pop" /\ last.trace[2].e = "pop"
    /\ last.trace[3].e = "dispatch"
    /\ Len(Visible) = 1
    /\ ~isFinished

-----------------------------------------------------------------------------
(* C24 *)

-----------------------------------------------------------------------------
(* C25 *)

-----------------------------------------------------------------------------
(* C26 *)

\* C26: a call of an interpreted function gives undefined at the call site within
\* the same step, and the callee's body is dispatched in later steps, before the
\* next pending node of the calling frame: the step that makes the call (without
\* raising an error) ends with the callee's frame on top of the stack, its body
\* still in its queue, a declaration initialised by the call binds undefined, and in
\* ProgCalls `x = 7`, the node after `return g();` in f, runs only after g's body.
C26_CalleeBodyRunsBeforeCaller ==
    /\ (last.op = "step" /\ Len(last.pushed) >= 1 /\ Len(Events("raise")) = 0)
       => /\ Len(stack) >= 1
          /\ stack[Len(stack)] = last.pushed[Len(last.pushed)].frame
          /\ stack[Len(stack)].nodeQueue = <<last.pushed[Len(last.pushed)].fnNode.body>>
          /\ \A k \in 1..Len(last.writes) :
                last.writes[k].how \in {"const", "let", "var"}
                   => last.writes[k].val = Undefined
    /\ (prog = 3 /\ \E k \in 1..Len(logs) : logs[k] = "Assigned x = 7")
       => \E k \in 1..Len(logs) : logs[k] = "Returning 1"

-----------------------------------------------------------------------------
(* C27 *)

\* C27: the step that dispatches a for loop (after running its init) or a
\* loop-check marker evaluates the loop's test once (an absent test counts as true).
\* When the test holds, the frame's queue becomes: the loop body, the update
\* statement when the loop has an update, the loop-check marker of that loop, and
\* then the nodes that were pending; when it does not hold, the queue is just the
\* nodes that were pending, so the node after the loop is next.
C27_LoopQueueOrder ==
    [][(/\ last'.op = "step"
        /\ last'.dispatchNode.type \in {"ForStatement", "ForLoopCheck"}
        /\ \A k \in 1..Len(last'.trace) : last'.trace[k].e # "raise")
          => LET node == last'.dispatchNode
                 loop == IF node.type = "ForLoopCheck" THEN node.original ELSE node
                 n == Len(last'.dispatchStack)
                 rest == last'.dispatchStack[n].nodeQueue
                 q == stack'[n].nodeQueue
                 test == IF IsNode(loop.test) THEN evaluate(Cur', loop.test, n)
                         ELSE Ok(Cur', Bool(TRUE))
                 pushed == Len(q) - Len(rest)
             IN  /\ Len(stack') = n
                 /\ last'.reads = test.st.reads
                 /\ IF Truthy(test.val)
                    THEN /\ pushed = IF IsNode(loop.update) THEN 3 ELSE 2
                         /\ q[1] = loop.body
                         /\ IsNode(loop.update)
                               => /\ q[2].type = "ExpressionStatement"
                                  /\ q[2].expression = loop.update
                         /\ q[pushed].type = "ForLoopCheck"
                         /\ q[pushed].original = loop
                         /\ node.type = "ForLoopCheck" => q[pushed] = node
                         /\ SubSeq(q, pushed + 1, Len(q)) = rest
                    ELSE q = rest]_vars

\* the loop of ProgLoop has gone round three times and its marker has just found
\* the test false: nothing of the loop is left in the queue
C27_Witness ==
    /\ prog = 2
    /\ last.op = "step"
    /\ last.dispatchNode.type = "ForLoopCheck"
    /\ stack[1].nodeQueue = << >>
    /\ globals["x"] = Num(3)
    /\ globals["i"] = Num(3)

-----------------------------------------------------------------------------
(* C28 *)

\* C28: dispatching a conditional is one visible step that evaluates the test once
\* and, going by the value that evaluation gives, pushes exactly one node to the
\* front of the current frame's queue: the consequent when the value is truthy, the
\* alternate when it is falsy and there is an alternate; when it is falsy and there
\* is no alternate the queue is left as it was.
C28_ConditionalPushesOneBranch ==
    [][(/\ last'.op = "step"
        /\ last'.dispatchNode.type = "IfStatement"
        /\ \A k \in 1..Len(last'.trace) : last'.trace[k].e # "raise")
          => LET node == last'.dispatchNode
                 n == Len(last'.dispatchStack)
                 rest == last'.dispatchStack[n].nodeQueue
                 q == stack'[n].nodeQueue
                 test == evaluate(Cur', node.test, n)
             IN  /\ Len(SelectSeq(last'.trace,
                                  LAMBDA x : x.e = "dispatch"
                                             /\ x.type \notin {"BlockStatement", "Program"})) = 1
                 /\ last'.trace[Len(last'.trace)].e \in {"dispatch", "native", "observer"}
                 /\ last'.reads = test.st.reads
                 /\ Len(stack') = n
                 /\ q = IF Truthy(test.val) THEN <<node.consequent>> \o rest
                        ELSE IF IsNode(node.alternate) THEN <<node.alternate>> \o rest
                        ELSE rest]_vars

\* the conditional of ProgNative found its test falsy and has put its alternate at
\* the front of the queue
C28_Witness ==
    /\ prog = 9
    /\ last.op = "step"
    /\ last.dispatchNode.type = "IfStatement"
    /\ Len(stack) = 1
    /\ Len(stack[1].nodeQueue) = 1
    /\ stack[1].nodeQueue[1] = last.dispatchNode.alternate
    /\ stack[1].nodeQueue[1] # last.dispatchNode.consequent

-----------------------------------------------------------------------------
(* C29 *)

\* C29: expanding a block places its statements at the front of the current frame's
\* queue in source order: when a step() first dispatches a block with statements,
\* the next node it dispatches, in the same frame and the same step, is the block's
\* first statement, and what is then left in the queue is the block's other
\* statements in source order followed by the nodes that were pending.  So a
\* block's statements are dispatched in source order and before the pending nodes:
\* the log of ProgShadow lists the six statements of f's body in source order
\* before the `let z = v;` that follows the call.
C29_BlockExpandsInSourceOrder ==
    [][/\ (/\ last'.op = "step"
           /\ Len(last'.trace) >= 1
           /\ last'.trace[1].e = "dispatch"
           /\ last'.trace[1].type = "BlockStatement"
           /\ Head(stack[Len(stack)].nodeQueue).body # << >>
           /\ Head(Head(stack[Len(stack)].nodeQueue).body).type # "BlockStatement")
          => LET n == Len(stack)
                 block == Head(stack[n].nodeQueue)
                 rest == Tail(stack[n].nodeQueue)
             IN  /\ last'.trace[1].n = n
                 /\ Len(last'.trace) >= 2
                 /\ last'.trace[2].e = "dispatch"
                 /\ last'.trace[2].n = n
                 /\ last'.dispatchNode = block.body[1]
                 /\ Len(last'.dispatchStack) = n
                 /\ last'.dispatchStack[n].nodeQueue = Tail(block.body) \o rest
       /\ prog = 15
          => logs' = SubSeq(<<"Declared innerWidth = 3", "Declared v = 1", "Calling f(5, 6)",
                              "Declared w = 5", "Declared c = {}", "Declared u = 3",
                              "Assigned y = undefined", "Assigned v = 2",
                              "Declared q = undefined", "Declared z = 1">>,
                            1, Len(logs'))]_vars

\* the body block of the loop of ProgLoop has been expanded in front of the pending
\* update statement and loop-check marker, and its statement has run
C29_Witness ==
    /\ prog = 2
    /\ last.op = "step"
    /\ Len(last.trace) >= 2
    /\ last.trace[1].e = "dispatch" /\ last.trace[1].type = "BlockStatement"
    /\ last.dispatchNode.type = "ExpressionStatement"
    /\ Len(stack) = 1
    /\ Len(stack[1].nodeQueue) = 2
    /\ stack[1].nodeQueue[2].type = "ForLoopCheck"
    /\ globals["x"] = Num(1)

-----------------------------------------------------------------------------
(* C30 *)

RECURSIVE BlocksIn(_)
\* the transparent nodes a step() can run through without returning: the blocks
\* among nodes, and the blocks their expansion puts in the queue
BlocksIn(nodes) ==
    IF nodes = << >> THEN 0
    ELSE (IF Head(nodes).type = "BlockStatement" THEN 1 + BlocksIn(Head(nodes).body) ELSE 0)
         + BlocksIn(Tail(nodes))

RECURSIVE PendingBlocks(_, _)
\* the same, over the queues of the frames stk[1..i]
PendingBlocks(stk, i) ==
    IF i = 0 THEN 0 ELSE BlocksIn(stk[i].nodeQueue) + PendingBlocks(stk, i - 1)

\* C30: every step() returns after finitely many trampoline iterations: it pops at
\* most the frames that were on the stack, and dispatches at most the blocks that
\* were pending plus one visible node.  That also holds for a program that loops
\* forever: each step() of `for(;;){}` expands the empty body, dispatches the loop's
\* marker as its one visible node and returns, with the interpreter never finished.
C30_StepReturns ==
    [][last'.op = "step"
          => /\ Len(SelectSeq(last'.trace, LAMBDA x : x.e = "pop")) <= Len(stack)
             /\ Len(SelectSeq(last'.trace, LAMBDA x : x.e = "dispatch"))
                   <= PendingBlocks(stack, Len(stack)) + 1
             /\ Len(SelectSeq(last'.trace,
                              LAMBDA x : x.e = "dispatch"
                                         /\ x.type \notin {"BlockStatement", "Program"})) <= 1
             /\ prog = 11
                => /\ ~isFinished' /\ error' = NoError
                   /\ Len(stack') = 1
                   /\ Len(SelectSeq(last'.trace, LAMBDA x : x.e = "dispatch")) <= 2
                   /\ last'.dispatchNode.type \in {"ForStatement", "ForLoopCheck"}]_vars

\* the program that loops forever has been stepped ten times and more: the last
\* step() ran through the empty body, dispatched the loop's marker and returned
C30_Witness ==
    /\ prog = 11
    /\ nOps >= 10
    /\ last.op = "step"
    /\ ~isFinished
    /\ Len(Dispatched) = 2
    /\ last.dispatchNode.type = "ForLoopCheck"
    /\ Len(stack[1].nodeQueue) = 2

-----------------------------------------------------------------------------
(* C31 *)

\* C31: finished changes from true to false only through a host event firing (the
\* firing of a listener whose callback is an interpreted function); no call of
\* step() changes finished from true to false, and the error field, once set, is
\* never cleared.
C31_OnlyFiringRevives ==
    [][/\ (isFinished /\ ~isFinished')
          => /\ last'.op = "fire"
             /\ IsFunctionNode(listeners[last'.arg].callback)
             /\ Len(stack') = Len(stack) + 1
       /\ (last'.op \in {"step", "setOnStep"} /\ isFinished) => isFinished'
       /\ error # NoError => error' # NoError]_vars

\* a listener has fired on an interpreter that an error had finished: finished is
\* false again and the error is still set
C31_Witness ==
    /\ Fired
    /\ last.wasFinished
    /\ ~isFinished
    /\ error # NoError
    /\ Len(stack) >= 2

-----------------------------------------------------------------------------
(* C32 *)

\* C32: in every reachable state every frame above the bottom of the stack has the
\* function-boundary flag set, and a frame without the flag is the global frame at
\* the bottom.  Blocks, conditionals and loops never add a frame: the stack is
\* deeper after an operation only when that operation was an event firing or a
\* step that made an interpreted call, and then by no more than the frames pushed.
C32_OnlyCallsAddFrames ==
    /\ \A i \in 1..Len(stack) :
          IF stack[i].isFunction THEN ~stack[i].scopeIsGlobals
          ELSE i = 1 /\ stack[i].scopeIsGlobals
    /\ (last.op # "new" /\ Len(stack) > last.depth)
          => /\ Fired \/ (last.op = "step" /\ Len(Events("call")) >= 1)
             /\ Len(last.pushed) >= 1
             /\ Len(stack) <= last.depth + Len(last.pushed)
    /\ (last.op = "step" /\ Len(Events("call")) = 0) => Len(stack) <= last.depth
    /\ Len(Events("push")) = Len(last.pushed)
    /\ Len(Events("call")) + (IF Fired /\ Len(last.pushed) = 1 THEN 1 ELSE 0)
          = Len(last.pushed)

\* a step has expanded a function's body block and dispatched the conditional in
\* it: the stack is still the global frame and the function's frame
C32_Witness ==
    /\ last.op = "step"
    /\ Len(last.trace) >= 2
    /\ last.trace[1].e = "dispatch" /\ last.trace[1].type = "BlockStatement"
    /\ last.dispatchNode.type = "IfStatement"
    /\ last.depth = 2
    /\ Len(stack) = 2
    /\ stack[2].isFunction
    /\ ~stack[1].isFunction

====
